---- MODULE Spec2Model ----
(***************************************************************************)
(* A model of dependencies.py: the call-pattern extraction of             *)
(* DependencyVisitor, the module resolver, the template include scanner,   *)
(* the loop of transitive_dependencies and the closure of _reachable.      *)
(*                                                                         *)
(* A filename is a record [dir, stem, ext]: the directory components, the  *)
(* base name without its suffix, and the suffix.  "./b/__init__.py" is     *)
(* [dir |-> <<".", "b">>, stem |-> "__init__", ext |-> "py"].  Two         *)
(* spellings of one file ("a.py", "./a.py") are two filenames, as they are *)
(* two strings for the program.                                            *)
(***************************************************************************)
EXTENDS Integers, Sequences, FiniteSets, TLC

VARIABLES
    fs,                  \* the filesystem: canonical path -> content of the file
    filenames,           \* transitive_dependencies: the argument /
                         \* _get_modules_filenames: the list it builds
    dependencies,        \* transitive_dependencies: the DependencyMap / _reachable: graph
    processed_filenames, \* transitive_dependencies: the processed set
    pending_filenames,   \* transitive_dependencies: the pending set
    filename,            \* transitive_dependencies: the filename popped last
    opened,              \* the filenames open() was called with
    pc,                  \* where the run is
    error,               \* the exception that ended the run, "" when none
    result,              \* the value returned to the caller
    reachable,           \* _reachable: the map under construction
    again,               \* the value a second _reachable call on the same graph returned
    functions,           \* DependencyVisitor.functions
    call,                \* the call expression visit_Call is given
    extracted,           \* what _extract_filename returned for it
    resolve_modules,     \* _get_modules_filenames: the modules its loop has still to take
    resolve_start_path,  \* _get_modules_filenames: start_path
    probed               \* the paths os.path.exists was called with, in order

vars == <<fs, filenames, dependencies, processed_filenames, pending_filenames,
          filename, opened, pc, error, result, reachable, again,
          functions, call, extracted,
          resolve_modules, resolve_start_path, probed>>

(***************************************************************************)
(* Bounds of the model.                                                    *)
(***************************************************************************)
MaxFiles == 3       \* files that exist in the filesystem
MaxStart == 2       \* filenames a run is started with
MaxNodes == 3       \* nodes of a graph handed to _reachable directly
MaxPatterns == 2    \* CallPatterns of a visitor
MaxArgs == 2        \* positional arguments of a call
MaxModules == 2     \* modules handed to _get_modules_filenames directly

(***************************************************************************)
(* Paths.                                                                  *)
(***************************************************************************)
Path(dir, stem, ext) == [dir |-> dir, stem |-> stem, ext |-> ext]

\* str.endswith('.' + ext)
EndsWith(name, ext) == name.ext = ext

\* os.path.normpath on the directory part: "." is dropped, "x/.." collapses,
\* a leading ".." stays.
RECURSIVE NormDirs(_, _)
NormDirs(done, rest) ==
    IF rest = <<>> THEN done
    ELSE LET c == Head(rest) IN
         IF c = "." THEN NormDirs(done, Tail(rest))
         ELSE IF c = ".." /\ done # <<>> /\ done[Len(done)] # ".."
              THEN NormDirs(SubSeq(done, 1, Len(done) - 1), Tail(rest))
              ELSE NormDirs(Append(done, c), Tail(rest))

NormPath(name) == Path(NormDirs(<<>>, name.dir), name.stem, name.ext)

\* The file a filename denotes, seen from the working directory.
Canon(name) == NormPath(name)

\* os.path.exists
Exists(files, name) == Canon(name) \in DOMAIN files

(***************************************************************************)
(* The syntax tree of a source file, as far as DependencyVisitor reads it. *)
(* A dotted module name is the sequence of its parts; a callee name and a  *)
(* glob pattern are sequences of characters; the names of a from-import    *)
(* are one-part dotted names.  A call argument is a literal string (kind  *)
(* "Str", s its value as a filename), any other expression (kind "Name"), *)
(* or missing (NoArg, Python's None).                                      *)
(***************************************************************************)
\* The empty string.
EmptyName == Path(<<>>, "", "")

\* Python's None where a filename is expected.
None == Path(<<>>, "", "None")

Str(s) == [kind |-> "Str", s |-> s]
NotStr == [kind |-> "Name", s |-> EmptyName]
NoArg == [kind |-> "None", s |-> EmptyName]

Import(names) ==
    [type |-> "Import", module |-> <<>>, names |-> names,
     func |-> [kind |-> "", name |-> <<>>], args |-> <<>>, keywords |-> <<>>]
ImportFrom(module, names) ==
    [type |-> "ImportFrom", module |-> module, names |-> names,
     func |-> [kind |-> "", name |-> <<>>], args |-> <<>>, keywords |-> <<>>]
Call(kind, name, args, keywords) ==
    [type |-> "Call", module |-> <<>>, names |-> <<>>,
     func |-> [kind |-> kind, name |-> name], args |-> args, keywords |-> keywords]

\* A CallPattern: (function_pattern, function_arg, post_processor).  function_arg
\* is a keyword name (kind "keyword") or a positional index (kind "index").
Keyword(key) == [kind |-> "keyword", key |-> key, index |-> 0]
Index(i) == [kind |-> "index", key |-> "", index |-> i]
Pattern(glob, arg, post) == [pattern |-> glob, arg |-> arg, post |-> post]

\* fnmatch.fnmatch: "*" matches any run of characters, "?" any one character.
RECURSIVE FnMatch(_, _)
FnMatch(name, pat) ==
    IF pat = <<>> THEN name = <<>>
    ELSE IF Head(pat) = "*"
         THEN FnMatch(name, Tail(pat)) \/ (name # <<>> /\ FnMatch(Tail(name), pat))
         ELSE /\ name # <<>>
              /\ (Head(pat) = "?" \/ Head(pat) = Head(name))
              /\ FnMatch(Tail(name), Tail(pat))

\* dict((k.arg, k.value) for k in keywords).get(key): the last entry wins.
RECURSIVE KeywordsGet(_, _)
KeywordsGet(keywords, key) ==
    IF keywords = <<>> THEN NoArg
    ELSE LET k == keywords[Len(keywords)] IN
         IF k.arg = key THEN k.value
         ELSE KeywordsGet(SubSeq(keywords, 1, Len(keywords) - 1), key)

\* The template-render post-processor: os.path.join('./templates', x.strip('/')).
TemplatesDir == <<".", "templates">>
PostProcess(post, s) ==
    IF post = "render" THEN Path(TemplatesDir \o s.dir, s.stem, s.ext) ELSE s

\* The argument a matching pattern designates.
DesignatedArg(function_arg, args, keywords) ==
    IF function_arg.kind = "keyword" THEN KeywordsGet(keywords, function_arg.key)
    ELSE IF function_arg.index < Len(args) THEN args[function_arg.index + 1]
    ELSE NoArg

\* DependencyVisitor._extract_filename: the loop over self.functions returns at
\* the first pattern that matches AND designates a literal string; a matching
\* pattern whose argument is no literal does not end the loop.
RECURSIVE ExtractFilename(_, _, _, _)
ExtractFilename(fns, function_name, args, keywords) ==
    IF fns = <<>> THEN None
    ELSE LET f == Head(fns)
             arg == DesignatedArg(f.arg, args, keywords)
         IN IF FnMatch(function_name, f.pattern) /\ arg.kind = "Str"
            THEN (IF f.post # "None" THEN PostProcess(f.post, arg.s) ELSE arg.s)
            ELSE ExtractFilename(Tail(fns), function_name, args, keywords)

\* DependencyVisitor.visit_Call: the filenames one call appends.
VisitCall(fns, node) ==
    IF node.func.kind \notin {"Name", "Attribute"} THEN <<>>
    ELSE LET name == ExtractFilename(fns, node.func.name, node.args, node.keywords)
         IN IF name # None /\ name # EmptyName THEN <<name>> ELSE <<>>

\* DependencyVisitor.visit_Import
VisitImport(node) == node.names

\* DependencyVisitor.visit_ImportFrom: the module and module.name for each name.
VisitImportFrom(node) ==
    <<node.module>> \o [i \in 1..Len(node.names) |-> node.module \o node.names[i]]

\* from __future__ import absolute_import
SetsAbsoluteImport(node) ==
    /\ node.type = "ImportFrom"
    /\ node.module = <<"__future__">>
    /\ \E i \in 1..Len(node.names) : node.names[i] = <<"absolute_import">>

\* The lists the visits of the statements extend a list with, in order.
RECURSIVE Extend(_)
Extend(lists) == IF lists = <<>> THEN <<>> ELSE Head(lists) \o Extend(Tail(lists))

\* DependencyVisitor.visit over the statements of a file: the visitor's
\* modules, filenames and absolute_import afterwards.
Visit(fns, body) ==
    [modules |->
         Extend([i \in 1..Len(body) |->
                    IF body[i].type = "Import" THEN VisitImport(body[i])
                    ELSE IF body[i].type = "ImportFrom" THEN VisitImportFrom(body[i])
                    ELSE <<>>]),
     filenames |->
         Extend([i \in 1..Len(body) |->
                    IF body[i].type = "Call" THEN VisitCall(fns, body[i]) ELSE <<>>]),
     absolute_import |-> \E i \in 1..Len(body) : SetsAbsoluteImport(body[i])]

Range(s) == {s[i] : i \in 1..Len(s)}

(***************************************************************************)
(* Module Resolver.                                                        *)
(***************************************************************************)
\* _extend_with_submodules: every dotted prefix of every module.
ExtendWithSubmodules(modules) ==
    UNION {{SubSeq(m, 1, i) : i \in 1..Len(m)} : m \in modules}

\* os.path.join(start_path, module_path + '.py')
ModuleFile(module, start_path) ==
    Path(start_path \o SubSeq(module, 1, Len(module) - 1), module[Len(module)], "py")

\* os.path.join(start_path, module_path, '__init__.py')
PackageFile(module, start_path) == Path(start_path \o module, "__init__", "py")

\* ModuleFilenames with the package probed before the module file.
ModuleFilenamesPackageFirst(files, module, start_path) ==
    IF Exists(files, PackageFile(module, start_path))
    THEN {PackageFile(module, start_path)}
    ELSE IF Exists(files, ModuleFile(module, start_path))
         THEN {ModuleFile(module, start_path)}
         ELSE {}

\* _get_modules_filenames, one iteration: what one module appends.
ModuleFilenames(files, module, start_path) ==
    IF Exists(files, ModuleFile(module, start_path))
    THEN {ModuleFile(module, start_path)}
    ELSE IF Exists(files, PackageFile(module, start_path))
         THEN {PackageFile(module, start_path)}
         ELSE {}

\* _get_modules_filenames, one iteration: the paths os.path.exists is called
\* with; `continue` skips the second call when the first returned True.
ModuleProbes(files, module, start_path) ==
    IF Exists(files, ModuleFile(module, start_path))
    THEN <<ModuleFile(module, start_path)>>
    ELSE <<ModuleFile(module, start_path), PackageFile(module, start_path)>>

\* _get_modules_filenames, as the set python_dependencies makes of its list.
GetModulesFilenames(files, modules, start_path) ==
    UNION {ModuleFilenames(files, m, start_path) : m \in modules}

\* python_dependencies, after visitor.visit(node):
\* set(visitor.filenames + modules_filenames).
VisitorDependencies(files, visitor, start_path) ==
    Range(visitor.filenames) \cup
    GetModulesFilenames(files, ExtendWithSubmodules(Range(visitor.modules)), start_path)

\* python_dependencies, once the file is read and parsed into node (the one
\* element of the inner set) and visited (the one element of the outer set).
PythonDependencies(files, name, start_path, fns) ==
    UNION {VisitorDependencies(files, visitor, start_path) :
              visitor \in {Visit(fns, node) : node \in {files[Canon(name)].body}}}

(***************************************************************************)
(* Template Include Scanner.  An include is what file="..." holds:         *)
(* [slash, dir, stem, ext], slash telling a leading "/".                   *)
(***************************************************************************)
Include(slash, dir, stem, ext) == [slash |-> slash, dir |-> dir, stem |-> stem, ext |-> ext]

\* include.startswith('..')
StartsWithParent(include) ==
    ~include.slash /\ include.dir # <<>> /\ include.dir[1] = ".."

\* os.path.join(base, include): an absolute second part replaces the first.
Join(base, include) ==
    IF include.slash THEN Path(<<"/">> \o include.dir, include.stem, include.ext)
    ELSE Path(base \o include.dir, include.stem, include.ext)

\* include.strip('/')
Strip(include) == [include EXCEPT !.slash = FALSE]

\* html_dependencies, one include.
NormalizedInclude(name, include, template_path) ==
    IF StartsWithParent(include) THEN NormPath(Join(name.dir, include))
    ELSE Join(template_path, Strip(include))

\* html_dependencies, once the file is read.
HtmlDependencies(files, name, template_path) ==
    {NormalizedInclude(name, i, template_path) : i \in files[Canon(name)].includes}

(***************************************************************************)
(* Reachability Engine.                                                    *)
(***************************************************************************)
\* Expand with the while loop never entered.
ExpandNever(graph, nodes, latest_nodes) == [ok |-> TRUE, nodes |-> nodes]

\* _reachable, the while loop of one node: the direct dependencies of the
\* latest nodes are added until none is new.  graph[n] of a node that is no key
\* raises KeyError (ok |-> FALSE).
RECURSIVE Expand(_, _, _)
Expand(graph, nodes, latest_nodes) ==
    IF latest_nodes = {} THEN [ok |-> TRUE, nodes |-> nodes]
    ELSE IF \E n \in latest_nodes : n \notin DOMAIN graph
         THEN [ok |-> FALSE, nodes |-> nodes]
         ELSE LET new_nodes == UNION {graph[n] : n \in latest_nodes} \ nodes
              IN Expand(graph, nodes \cup new_nodes, new_nodes)

\* Seed without reachable[node].add(node).
SeedWithoutSelf(graph, node) == graph[node]

\* reachable[node] = set(graph[node]); reachable[node].add(node)
Seed(graph, node) == graph[node] \cup {node}

\* _reachable, one iteration of the for loop: reachable[node].
ReachableFrom(graph, node) == Expand(graph, Seed(graph, node), Seed(graph, node))

\* _reachable(graph) as a whole.
Reachable(graph) ==
    [ok |-> \A node \in DOMAIN graph : ReachableFrom(graph, node).ok,
     map |-> [node \in DOMAIN graph |-> ReachableFrom(graph, node).nodes]]

(***************************************************************************)
(* The filesystem a run of transitive_dependencies is started in.          *)
(***************************************************************************)
APy == Path(<<>>, "a", "py")
BInit == Path(<<"b">>, "__init__", "py")
THtml == Path(<<"templates">>, "t", "html")
NTxt == Path(<<"templates">>, "n", "txt")

\* The files that may exist, by their canonical paths.
FileUniverse == {APy, BInit, THtml, NTxt}

Open == <<"o", "p", "e", "n">>
GzOpen == <<"g", "z", "o", "p", "e", "n">>
Render == <<"r", "e", "n", "d", "e", "r">>

ImportA == Import(<< <<"a">> >>)
FromBImportA == ImportFrom(<<"b">>, << <<"a">> >>)
OpenNTxt == Call("Name", Open, <<Str(Path(<<".">>, "n", "txt")), Str(Path(<<>>, "w", ""))>>, <<>>)

\* The statement lists a source file may hold.
Bodies ==
    {<<>>, <<ImportA>>, <<FromBImportA>>, <<ImportA, FromBImportA>>,
     <<FromBImportA, OpenNTxt>>}

\* file="/n.txt", file="../templates/t.html", file="m.html"
IncludeUniverse ==
    {Include(TRUE, <<>>, "n", "txt"),
     Include(FALSE, <<"..", "templates">>, "t", "html"),
     Include(FALSE, <<>>, "m", "html")}

Content(syntax_ok, body, includes) ==
    [syntax_ok |-> syntax_ok, body |-> body, includes |-> includes]

\* What a file of the universe may hold.
Contents(name) ==
    IF name.ext = "py"
    THEN {Content(FALSE, <<>>, {})} \cup {Content(TRUE, b, {}) : b \in Bodies}
    ELSE IF name.ext = "html"
         THEN {Content(TRUE, <<>>, i) : i \in SUBSET IncludeUniverse}
         ELSE {Content(TRUE, <<>>, {})}

AllContents == UNION {Contents(name) : name \in FileUniverse}

\* The filesystems: at most MaxFiles files of the universe exist.
Filesystems ==
    UNION {{f \in [present -> AllContents] : \A name \in present : f[name] \in Contents(name)} :
           present \in {p \in SUBSET FileUniverse : Cardinality(p) <= MaxFiles}}

\* The filenames a caller may ask for, spelled as the caller spells them.
Requestable ==
    {Path(<<>>, "a", "py"), Path(<<".", "b">>, "__init__", "py"),
     Path(<<".", "templates">>, "t", "html"), Path(<<>>, "notes", "txt")}

StartSets == {s \in SUBSET Requestable : Cardinality(s) <= MaxStart}

(***************************************************************************)
(* transitive_dependencies.                                                *)
(***************************************************************************)
\* open(name) and, for a source file, ast.parse: the exception raised, "" if none.
ReadError(files, name) ==
    IF ~Exists(files, name) THEN "IOError"
    ELSE IF EndsWith(name, "py") /\ ~files[Canon(name)].syntax_ok THEN "SyntaxError"
    ELSE ""

\* The arguments transitive_dependencies leaves to their defaults.
DefaultStartPath == <<".">>
DefaultFunctions == <<>>
DefaultTemplatePath == <<".", "templates">>

\* DirectDependencies with an opaque leaf recorded without dependencies.
DirectDependenciesEmptyLeaf(files, name) ==
    IF EndsWith(name, "py")
    THEN PythonDependencies(files, name, DefaultStartPath, DefaultFunctions)
    ELSE IF EndsWith(name, "html")
         THEN HtmlDependencies(files, name, DefaultTemplatePath)
         ELSE {}

\* The three branches of the loop body: dependencies[filename].
DirectDependencies(files, name) ==
    IF EndsWith(name, "py")
    THEN PythonDependencies(files, name, DefaultStartPath, DefaultFunctions)
    ELSE IF EndsWith(name, "html")
         THEN HtmlDependencies(files, name, DefaultTemplatePath)
         ELSE {name}

\* NewPending without the subtraction of the processed filenames.
NewPendingAll(deps, processed) == deps

\* NewPending that takes up source files only.
NewPendingSources(deps, processed) == {d \in deps : EndsWith(d, "py")} \ processed

\* set(dependencies[filename]) - processed_filenames
NewPending(deps, processed) == deps \ processed

\* Record that leaves out the dependencies analyzed before.
RecordUnanalyzed(map, name, deps) == (name :> (deps \ DOMAIN map)) @@ map

\* dependencies[filename] = deps
Record(map, name, deps) == (name :> deps) @@ map

NoResult == <<>>

Init ==
    /\ fs \in Filesystems
    /\ filenames \in StartSets
    /\ dependencies = <<>>
    /\ processed_filenames = {}
    /\ pending_filenames = filenames
    /\ filename = None
    /\ opened = {}
    /\ pc = "loop"
    /\ error = ""
    /\ result = NoResult
    /\ reachable = <<>>
    /\ again = NoResult
    /\ functions = <<>>
    /\ call = <<>>
    /\ extracted = None
    /\ resolve_modules = <<>>
    /\ resolve_start_path = <<>>
    /\ probed = <<>>

\* Analyze with the exception caught and the file recorded without
\* dependencies.
AnalyzeIgnoringErrors(name) ==
    /\ pc = "loop"
    /\ name \in pending_filenames
    /\ filename' = name
    /\ processed_filenames' = processed_filenames \cup {name}
    /\ opened' = opened \cup {name}
    /\ \E deps \in {IF ReadError(fs, name) # "" THEN {} ELSE DirectDependencies(fs, name)} :
          /\ dependencies' = Record(dependencies, name, deps)
          /\ pending_filenames' =
                 (pending_filenames \ {name}) \cup
                 NewPending(deps, processed_filenames \cup {name})
    /\ UNCHANGED <<pc, error>>
    /\ UNCHANGED <<resolve_modules, resolve_start_path, probed>>
    /\ UNCHANGED <<fs, filenames, result, reachable, again, functions, call, extracted>>

\* One iteration of the while loop on a file that is read: a source or a
\* template file.  An exception of open or ast.parse leaves the function.
Analyze(name) ==
    /\ pc = "loop"
    /\ name \in pending_filenames
    /\ filename' = name
    /\ processed_filenames' = processed_filenames \cup {name}
    /\ opened' = opened \cup {name}
    /\ IF ReadError(fs, name) # ""
       THEN /\ pc' = "aborted"
            /\ error' = ReadError(fs, name)
            /\ pending_filenames' = pending_filenames \ {name}
            /\ UNCHANGED dependencies
       ELSE \E deps \in {DirectDependencies(fs, name)} :
            /\ dependencies' = Record(dependencies, name, deps)
            /\ pending_filenames' =
                   (pending_filenames \ {name}) \cup
                   NewPending(deps, processed_filenames \cup {name})
            /\ UNCHANGED <<pc, error>>
    /\ UNCHANGED <<resolve_modules, resolve_start_path, probed>>
    /\ UNCHANGED <<fs, filenames, result, reachable, again, functions, call, extracted>>

SourceFile(name) == EndsWith(name, "py") /\ Analyze(name)

TemplateFile(name) == ~EndsWith(name, "py") /\ EndsWith(name, "html") /\ Analyze(name)

\* One iteration of the while loop on any other file: nothing is opened.
OpaqueLeaf(name) ==
    /\ pc = "loop"
    /\ name \in pending_filenames
    /\ ~EndsWith(name, "py") /\ ~EndsWith(name, "html")
    /\ filename' = name
    /\ processed_filenames' = processed_filenames \cup {name}
    /\ \E deps \in {DirectDependencies(fs, name)} :
       /\ dependencies' = Record(dependencies, name, deps)
       /\ pending_filenames' =
              (pending_filenames \ {name}) \cup
              NewPending(deps, processed_filenames \cup {name})
    /\ UNCHANGED <<resolve_modules, resolve_start_path, probed>>
    /\ UNCHANGED <<fs, filenames, opened, pc, error, result, reachable, again,
                   functions, call, extracted>>

\* return _reachable(dependencies)
Return ==
    /\ pc = "loop"
    /\ pending_filenames = {}
    /\ \E r \in {Reachable(dependencies)} :
       IF r.ok
       THEN pc' = "done" /\ result' = r.map /\ UNCHANGED error
       ELSE pc' = "aborted" /\ error' = "KeyError" /\ UNCHANGED result
    /\ UNCHANGED <<resolve_modules, resolve_start_path, probed>>
    /\ UNCHANGED <<fs, filenames, dependencies, processed_filenames, pending_filenames,
                   filename, opened, reachable, again, functions, call, extracted>>

Next ==
    \/ \E name \in pending_filenames : SourceFile(name)
    \/ \E name \in pending_filenames : TemplateFile(name)
    \/ \E name \in pending_filenames : OpaqueLeaf(name)
    \/ Return

Spec == Init /\ [][Next]_vars

\* The loop runs on: nothing but an exception or the return ends it.
FairSpec == Spec /\ WF_vars(Next)

(***************************************************************************)
(* _reachable on its own: any graph whose dependency values are keys, the  *)
(* for loop taking the nodes in any order, and the caller calling it a     *)
(* second time on the same graph.                                          *)
(***************************************************************************)
Graphs == UNION {[1..n -> SUBSET (1..n)] : n \in 0..MaxNodes}

ReachInit ==
    /\ fs = <<>>
    /\ filenames = {}
    /\ dependencies \in Graphs
    /\ processed_filenames = {}
    /\ pending_filenames = {}
    /\ filename = None
    /\ opened = {}
    /\ pc = "reach"
    /\ error = ""
    /\ result = NoResult
    /\ reachable = <<>>
    /\ again = NoResult
    /\ functions = <<>>
    /\ call = <<>>
    /\ extracted = None
    /\ resolve_modules = <<>>
    /\ resolve_start_path = <<>>
    /\ probed = <<>>

\* ReachNode with reachable[node] = graph[node], the set of the graph itself:
\* what is added to reachable[node] is added to the graph.
ReachNodeAliased(node) ==
    /\ pc \in {"reach", "reach_again"}
    /\ node \in DOMAIN dependencies \ DOMAIN reachable
    /\ ReachableFrom(dependencies, node).ok
    /\ reachable' = Record(reachable, node, ReachableFrom(dependencies, node).nodes)
    /\ dependencies' = Record(dependencies, node, ReachableFrom(dependencies, node).nodes)
    /\ UNCHANGED <<resolve_modules, resolve_start_path, probed>>
    /\ UNCHANGED <<fs, filenames, processed_filenames, pending_filenames, pc, error,
                   filename, opened, result, again, functions, call, extracted>>

\* One iteration of the for loop.  reachable[node] starts as a copy,
\* set(graph[node]): the graph keeps its sets.
ReachNode(node) ==
    /\ pc \in {"reach", "reach_again"}
    /\ node \in DOMAIN dependencies \ DOMAIN reachable
    /\ IF ReachableFrom(dependencies, node).ok
       THEN /\ reachable' = Record(reachable, node, ReachableFrom(dependencies, node).nodes)
            /\ UNCHANGED <<pc, error>>
       ELSE /\ pc' = "aborted"
            /\ error' = "KeyError"
            /\ UNCHANGED reachable
    /\ UNCHANGED <<resolve_modules, resolve_start_path, probed>>
    /\ UNCHANGED <<fs, filenames, dependencies, processed_filenames, pending_filenames,
                   filename, opened, result, again, functions, call, extracted>>

\* return reachable, of the first call.
ReachReturn ==
    /\ pc = "reach"
    /\ DOMAIN reachable = DOMAIN dependencies
    /\ result' = reachable
    /\ reachable' = <<>>
    /\ pc' = "reach_again"
    /\ UNCHANGED <<resolve_modules, resolve_start_path, probed>>
    /\ UNCHANGED <<fs, filenames, dependencies, processed_filenames, pending_filenames,
                   filename, opened, error, again, functions, call, extracted>>

\* return reachable, of the second call.
ReachAgainReturn ==
    /\ pc = "reach_again"
    /\ DOMAIN reachable = DOMAIN dependencies
    /\ again' = reachable
    /\ pc' = "reached"
    /\ UNCHANGED <<resolve_modules, resolve_start_path, probed>>
    /\ UNCHANGED <<fs, filenames, dependencies, processed_filenames, pending_filenames,
                   filename, opened, error, result, reachable, functions, call, extracted>>

ReachNext ==
    \/ \E node \in 1..MaxNodes : ReachNode(node)
    \/ ReachReturn
    \/ ReachAgainReturn

ReachSpec == ReachInit /\ [][ReachNext]_vars

(***************************************************************************)
(* DependencyVisitor.visit_Call on its own: any call, any pattern list.    *)
(***************************************************************************)
FooTxt == Path(<<>>, "foo", "txt")
BarTxt == Path(<<>>, "bar", "txt")

Globs == {<<"*", "o", "p", "e", "n">>, Open, <<"?", "z", "*">>}

PatternUniverse ==
    {Pattern(g, a, p) : g \in Globs, a \in {Index(0), Index(1), Keyword("x")},
                        p \in {"None", "render"}}

SeqsUpTo(S, n) == UNION {[1..k -> S] : k \in 0..n}

PatternLists == SeqsUpTo(PatternUniverse, MaxPatterns)

Calls ==
    {Call(k, n, a, kw) :
        k \in {"Name", "Attribute"}, n \in {Open, GzOpen, Render},
        a \in SeqsUpTo({Str(FooTxt), NotStr}, MaxArgs),
        kw \in {<<>>, <<[arg |-> "x", value |-> Str(BarTxt)]>>,
                <<[arg |-> "x", value |-> NotStr]>>}}
    \cup {Call("Subscript", <<>>, <<Str(FooTxt)>>, <<>>)}

ExtractInit ==
    /\ fs = <<>>
    /\ filenames = {}
    /\ dependencies = <<>>
    /\ processed_filenames = {}
    /\ pending_filenames = {}
    /\ filename = None
    /\ opened = {}
    /\ pc = "call"
    /\ error = ""
    /\ result = <<>>
    /\ reachable = <<>>
    /\ again = NoResult
    /\ functions \in PatternLists
    /\ call \in Calls
    /\ extracted = None
    /\ resolve_modules = <<>>
    /\ resolve_start_path = <<>>
    /\ probed = <<>>

\* visit_Call(call): extracted is what _extract_filename returned (None when
\* it was not called), result the visitor's filenames afterwards.
VisitCallStep ==
    /\ pc = "call"
    /\ pc' = "visited"
    /\ extracted' =
           IF call.func.kind \in {"Name", "Attribute"}
           THEN ExtractFilename(functions, call.func.name, call.args, call.keywords)
           ELSE None
    /\ result' = VisitCall(functions, call)
    /\ UNCHANGED <<resolve_modules, resolve_start_path, probed>>
    /\ UNCHANGED <<fs, filenames, dependencies, processed_filenames, pending_filenames,
                   filename, opened, error, reachable, again, functions, call>>

ExtractNext == VisitCallStep

ExtractSpec == ExtractInit /\ [][ExtractNext]_vars

(***************************************************************************)
(* _get_modules_filenames on its own: any list of modules, searched from   *)
(* either start path, in any filesystem of module files and packages.      *)
(***************************************************************************)
ModuleUniverse == {<<"a">>, <<"b">>, <<"b", "a">>}

StartPaths == {<<".">>, <<"start">>}

\* The module files and package files that may exist, by canonical path.
ResolveUniverse ==
    {Canon(ModuleFile(m, sp)) : m \in ModuleUniverse, sp \in StartPaths}
    \cup {Canon(PackageFile(m, sp)) : m \in ModuleUniverse, sp \in StartPaths}

ResolveFilesystems ==
    {[name \in present |-> Content(TRUE, <<>>, {})] :
        present \in {p \in SUBSET ResolveUniverse : Cardinality(p) <= MaxFiles}}

\* The lists that hold the elements of S once each.
Listings(S) == {s \in [1..Cardinality(S) -> S] : Range(s) = S}

ResolveInit ==
    /\ fs \in ResolveFilesystems
    /\ filenames = <<>>
    /\ dependencies = <<>>
    /\ processed_filenames = {}
    /\ pending_filenames = {}
    /\ filename = None
    /\ opened = {}
    /\ pc = "resolve"
    /\ error = ""
    /\ result = NoResult
    /\ reachable = <<>>
    /\ again = NoResult
    /\ functions = <<>>
    /\ call = <<>>
    /\ extracted = None
    /\ resolve_modules \in SeqsUpTo(ModuleUniverse, MaxModules)
    /\ resolve_start_path \in StartPaths
    /\ probed = <<>>

\* One iteration of `for module in modules`.
ResolveModule ==
    /\ pc = "resolve"
    /\ resolve_modules # <<>>
    /\ \E appended \in Listings(ModuleFilenames(fs, Head(resolve_modules), resolve_start_path)) :
           filenames' = filenames \o appended
    /\ probed' = probed \o ModuleProbes(fs, Head(resolve_modules), resolve_start_path)
    /\ resolve_modules' = Tail(resolve_modules)
    /\ UNCHANGED <<fs, dependencies, processed_filenames, pending_filenames, filename,
                   opened, pc, error, result, reachable, again, functions, call,
                   extracted, resolve_start_path>>

\* return filenames
ResolveReturn ==
    /\ pc = "resolve"
    /\ resolve_modules = <<>>
    /\ pc' = "resolved"
    /\ result' = filenames
    /\ UNCHANGED <<fs, filenames, dependencies, processed_filenames, pending_filenames,
                   filename, opened, error, reachable, again, functions, call,
                   extracted, resolve_modules, resolve_start_path, probed>>

ResolveNext == ResolveModule \/ ResolveReturn

ResolveSpec == ResolveInit /\ [][ResolveNext]_vars

(***************************************************************************)
(* Properties.                                                             *)
(***************************************************************************)
\* S is the set of nodes reachable from n by zero or more edges of graph: the
\* least set that holds n and the dependencies of each of its nodes.
ClosedUnder(graph, S) == \A x \in S : x \in DOMAIN graph /\ graph[x] \subseteq S

IsClosure(graph, n, S) ==
    /\ n \in S
    /\ ClosedUnder(graph, S)
    /\ \A T \in SUBSET S : (n \in T /\ ClosedUnder(graph, T)) => T = S

IsOpaque(name) == ~EndsWith(name, "py") /\ ~EndsWith(name, "html")

\* C1: on a graph whose dependency values are keys, _reachable ends without a
\* KeyError and returns a map with the keys of the graph in which the set of a
\* node n is exactly the set of nodes reachable from n by zero or more edges
\* (n itself among them).
C1_ReachableIsClosure ==
    /\ pc # "aborted"
    /\ pc \in {"reach_again", "reached"} =>
           /\ DOMAIN result = DOMAIN dependencies
           /\ \A n \in DOMAIN result : IsClosure(dependencies, n, result[n])

\* The first call has returned on the cycle 1 -> 2 -> 3 -> 1, every node
\* reaching all three.
C1_Witness ==
    /\ pc = "reach_again"
    /\ dependencies = <<{2}, {3}, {1}>>
    /\ result = <<{1, 2, 3}, {1, 2, 3}, {1, 2, 3}>>

\* The direct-dependency relation of the analyzers over the files visited.
AnalyzerMap == [name \in processed_filenames |-> DirectDependencies(fs, name)]

\* C2: a run that returns gives every requested filename its set of files
\* reachable through the direct dependencies the analyzers produce, the
\* filename itself included; the map returned is _reachable of the
\* direct-dependency map of the files visited.
C2_TransitiveDependencies ==
    pc = "done" =>
        /\ filenames \subseteq DOMAIN result
        /\ DOMAIN result = processed_filenames
        /\ \A name \in DOMAIN result : IsClosure(AnalyzerMap, name, result[name])
        /\ result = Reachable(AnalyzerMap).map

\* A requested file that reaches a file two edges away.
C2_Witness ==
    /\ pc = "done"
    /\ \E name \in filenames :
          \E far \in result[name] :
             /\ far # name
             /\ far \notin dependencies[name]

\* C3: when the loop has ended with pending empty, every filename of a
\* direct-dependency set is a key, the keys are the processed filenames, and
\* they are the requested filenames and what is discovered from them, no more;
\* _reachable meets no missing key.
C3_MapClosed ==
    /\ error # "KeyError"
    /\ (pc = "done" \/ (pc = "loop" /\ pending_filenames = {})) =>
           /\ ClosedUnder(dependencies, DOMAIN dependencies)
           /\ DOMAIN dependencies = processed_filenames
           /\ filenames \subseteq DOMAIN dependencies
           /\ \A T \in SUBSET DOMAIN dependencies :
                 (filenames \subseteq T /\ ClosedUnder(dependencies, T))
                     => T = DOMAIN dependencies

\* The loop has ended on a map with a key that was not requested but
\* discovered, an opaque leaf among the keys.
C3_Witness ==
    /\ pc = "loop"
    /\ pending_filenames = {}
    /\ \E name \in DOMAIN dependencies : name \notin filenames /\ IsOpaque(name)
    /\ \E name \in DOMAIN dependencies : name \notin filenames /\ ~IsOpaque(name)

\* A step of the loop body: any step taken while filenames are pending.
LoopStep == pc = "loop" /\ pending_filenames # {}

\* C4 as stated: the loop ends with pending empty in every run.
C4_EndsWithPendingEmpty == pc # "loop" => pending_filenames = {}

\* C4, amended: every run ends, by the return with pending empty or by the
\* exception of a read or parse failure (pending may then hold filenames);
\* each loop step pops a filename that was not processed before, and no
\* processed filename is put into pending.
C4_Terminates ==
    /\ <>(pc \in {"done", "aborted"})
    /\ [](pc = "done" => pending_filenames = {})
    /\ [][LoopStep =>
            /\ filename' \notin processed_filenames
            /\ processed_filenames' \cap pending_filenames' = {}]_vars

\* A run that returned over two files that depend on each other.
C4_Witness ==
    /\ pc = "done"
    /\ \E f \in DOMAIN dependencies :
          \E g \in dependencies[f] : g # f /\ f \in dependencies[g]

\* C5: once a source or template file of the run failed to be read or parsed,
\* the run is aborted with that error, and no map is returned, whatever was
\* processed before.
C5_AbortsWithoutResult ==
    (\E name \in processed_filenames : ~IsOpaque(name) /\ ReadError(fs, name) # "") =>
        /\ pc = "aborted"
        /\ error = ReadError(fs, filename)
        /\ error # ""
        /\ result = NoResult

\* A parse failure after another file was processed and recorded.
C5_Witness ==
    /\ pc = "aborted"
    /\ error = "SyntaxError"
    /\ dependencies # <<>>

\* C6 as stated: an import or include target without a file is in no
\* direct-dependency set of an analyzed file, is never pending, and is never
\* the file whose read aborts the run.
C6_UnresolvedDropped ==
    /\ \A name \in DOMAIN dependencies :
          ~IsOpaque(name) => \A target \in dependencies[name] : Exists(fs, target)
    /\ \A target \in pending_filenames \ filenames : Exists(fs, target)
    /\ error = "IOError" => filename \in filenames

\* The first pattern of fns whose glob matches name, 0 when none does.
RECURSIVE FirstMatch(_, _, _)
FirstMatch(fns, name, i) ==
    IF i > Len(fns) THEN 0
    ELSE IF FnMatch(name, fns[i].pattern) THEN i
    ELSE FirstMatch(fns, name, i + 1)

\* C7 as stated: only the first pattern whose glob matches the callee name is
\* used; the filename is the one it extracts, and none when its designated
\* argument is no literal string.
C7_FirstMatchOnly ==
    (pc = "visited" /\ call.func.kind \in {"Name", "Attribute"}) =>
        LET i == FirstMatch(functions, call.func.name, 1) IN
        IF i = 0 THEN extracted = None
        ELSE LET arg == DesignatedArg(functions[i].arg, call.args, call.keywords) IN
             IF arg.kind = "Str"
             THEN extracted = PostProcess(functions[i].post, arg.s)
             ELSE extracted = None

\* The configured CallPatterns of a deployment: the generic file-open call.
ConfiguredFunctions == <<Pattern(<<"*", "o", "p", "e", "n">>, Index(0), "None")>>

\* C8 as stated: the literal filename of a call that matches a configured
\* pattern is a direct dependency of its source file, a key of the map and in
\* the reachable set of the source file.
C8_ConfiguredPatternsApplied ==
    pc = "done" =>
        \A name \in DOMAIN dependencies :
            EndsWith(name, "py") =>
                \A target \in Range(Visit(ConfiguredFunctions, fs[Canon(name)].body).filenames) :
                    /\ target \in dependencies[name]
                    /\ target \in DOMAIN dependencies
                    /\ target \in result[name]

\* C9: a processed filename that ends neither in .py nor in .html was never
\* opened, did not abort the run, has itself as its one direct dependency and,
\* in the map returned, as its one reachable file; the step that processes it
\* adds nothing to pending.
C9_OpaqueLeaf ==
    /\ [](\A name \in processed_filenames :
             IsOpaque(name) =>
                 /\ name \notin opened
                 /\ name \in DOMAIN dependencies
                 /\ dependencies[name] = {name}
                 /\ (pc = "done" => result[name] = {name})
                 /\ (pc = "aborted" => filename # name))
    /\ [][(LoopStep /\ IsOpaque(filename')) =>
             pending_filenames' = pending_filenames \ {filename'}]_vars

\* A run that returned with an opaque leaf that was not requested but
\* included by a template, and that is no file of the filesystem.
C9_Witness ==
    /\ pc = "done"
    /\ \E name \in DOMAIN result :
          IsOpaque(name) /\ name \notin filenames /\ ~Exists(fs, name)

\* C10: _reachable leaves the graph as it is, and a second call on the same
\* graph returns what the first returned, whatever the order in which either
\* call takes the nodes.
C10_Idempotent ==
    /\ [][dependencies' = dependencies]_vars
    /\ [](pc = "reached" => again = result)

\* Two calls have returned on a graph with a cycle and a node outside it.
C10_Witness ==
    /\ pc = "reached"
    /\ again = result
    /\ dependencies = <<{2}, {1, 3}, {}>>

\* C11: each module contributes at most one path to _get_modules_filenames:
\* the module file when it exists, and the package file is then not probed;
\* otherwise the package file when that exists; otherwise nothing, and no
\* error.  The list returned holds no path that does not exist.
C11_AtMostOnePath ==
    /\ [][pc = "resolve" /\ resolve_modules # <<>> =>
            LET module == Head(resolve_modules)
                module_file == ModuleFile(module, resolve_start_path)
                package_file == PackageFile(module, resolve_start_path)
            IN /\ pc' = "resolve" /\ error' = ""
               /\ IF Exists(fs, module_file)
                  THEN /\ filenames' = Append(filenames, module_file)
                       /\ probed' = Append(probed, module_file)
                  ELSE IF Exists(fs, package_file)
                       THEN filenames' = Append(filenames, package_file)
                       ELSE filenames' = filenames]_vars
    /\ [](pc = "resolved" => \A i \in 1..Len(result) : Exists(fs, result[i]))

\* A call has returned two paths: the module file of a module whose package
\* file exists as well, then the package file of a module without module file.
C11_Witness ==
    /\ pc = "resolved"
    /\ Len(result) = 2
    /\ \E m \in ModuleUniverse :
          /\ Exists(fs, ModuleFile(m, resolve_start_path))
          /\ Exists(fs, PackageFile(m, resolve_start_path))
          /\ result[1] = ModuleFile(m, resolve_start_path)
          /\ PackageFile(m, resolve_start_path) \notin Range(probed)
    /\ \E m \in ModuleUniverse :
          /\ ~Exists(fs, ModuleFile(m, resolve_start_path))
          /\ result[2] = PackageFile(m, resolve_start_path)

\* The filenames any run started with names pops, whatever the order: the
\* least set that holds names and the direct dependencies of each of its
\* files that can be read.
\* Analyzing name raises: a source file or a template that cannot be read
\* or parsed; an opaque leaf is never opened.
Unreadable(files, name) == ~IsOpaque(name) /\ ReadError(files, name) # ""

RECURSIVE Analyzed(_, _)
Analyzed(files, names) ==
    LET more == names \cup UNION {IF Unreadable(files, n)
                                  THEN {}
                                  ELSE DirectDependencies(files, n) : n \in names}
    IN IF more = names THEN names ELSE Analyzed(files, more)

====
